---- MODULE Spec2Model ----
(***************************************************************************)
(* A model of brix (src/brix/core.py): the dependency-graph executor       *)
(* execute_dependency_graph with its worker pool, the FileLoader digest     *)
(* cache and the conditional wrapper ExecuteOnTouchedAction.                *)
(*                                                                         *)
(* An edge <<u, v>> reads "u is a predecessor of v".  The two edge sets of *)
(* a node are kept apart (preds, succs), as in the source, so that a graph *)
(* wired by hand (as the tests do) need not be symmetric.                  *)
(***************************************************************************)
EXTENDS Integers, Sequences, FiniteSets, TLC

\* ------------------------------------------------------------------ bounds

\* The number of FileLoader (or add_predecessors) operations called in a row.
MaxSteps == 5

\* The largest n_threads value a call is made with (values 0..MaxThreads).
MaxThreads == 2

\* The number of consecutive calls of execute_dependency_graph on one graph.
MaxRuns == 2

\* ------------------------------------------------------------ node universe

Files == {"f1", "f2", "f3"}
Commands == {"c1", "c2"}
Nodes == Files \cup Commands

\* The classes a node object may be an instance of.  "Node" is the bare base
\* class (or a subclass of it that is neither Data nor Command); "Data" is a
\* Data that is not a File.
Kinds == {"File", "Data", "Command", "Node"}

\* The edges a graph under test is wired from.
CandEdges ==
    { <<"f1", "c1">>, <<"c1", "f2">>, <<"f2", "c2">>, <<"c2", "f3">>,
      <<"f1", "c2">>,
      <<"f2", "c1">>,      \* closes the cycle c1 -> f2 -> c1
      <<"f3", "f1">>,      \* File-File edge
      <<"c1", "c2">> }     \* Command-Command edge

\* Edges that may be wired on one side only (x.predecessors.add(y) without
\* y.successors.add(x), or the reverse).
HalfEdges == { <<"f2", "c2">>, <<"f1", "c2">> }

TargetChoices == { {}, {"f3"}, {"f2"}, {"c2"}, {"f2", "f3"}, {"f1", "f2", "f3"} }

PredsOf(E) == [n \in Nodes |-> {u \in Nodes : <<u, n>> \in E}]
SuccsOf(E) == [n \in Nodes |-> {v \in Nodes : <<n, v>> \in E}]

\* Node.add_predecessors(self, pred) applied for every edge of E: both sides.
AddPredecessors(E) == [p |-> PredsOf(E), s |-> SuccsOf(E)]

\* The wirings of the edge set E: symmetric, or with one half of one edge
\* of HalfEdges missing.
Wirings(E) ==
    {AddPredecessors(E)}
      \cup {[p |-> PredsOf(E), s |-> SuccsOf(E \ {e})] : e \in HalfEdges \cap E}
      \cup {[p |-> PredsOf(E \ {e}), s |-> SuccsOf(E)] : e \in HalfEdges \cap E}

VARIABLES
    kind,         \* node -> class of the node object
    preds,        \* node -> node.predecessors
    succs,        \* node -> node.successors
    action,       \* node -> "none" | "plain" (an Action instance) |
                  \* "wrapped" (an ExecuteOnTouchedAction) | a bundled action
    targets,      \* the *targets of the call
    n_threads,    \* the n_threads of the call
    pc,           \* where the calling thread is in execute_dependency_graph
    todoT,        \* targets not yet passed to collect_nodes
    stack,        \* the recursion stack of collect_nodes: <<[node, todo]>>
    nodes,        \* collected nodes
    visiting,     \* nodes on the current DFS path
    in_degree,    \* collected node -> number of unexecuted predecessors
    ready,        \* the ready queue (FIFO)
    futures,      \* the futures list, a future named by its node
    done,         \* the done set returned by wait(), not yet handled
    cur,          \* the future being handled ("" when none)
    hsucc,        \* successors of cur whose in-degree is still to be updated
    completed,    \* completed nodes
    build_failed, \* the build_failed flag
    task,         \* node -> state of its execute_node task
    outcome,      \* how the call ended ("none" while it runs)
    fs,           \* path -> what is on disk: [type, data]
    hash,         \* File node -> file.hash
    status,       \* File node -> file.status
    cache,        \* FileLoader._cache: key -> digest
    cacheFile,    \* the cache file on disk: [present, map]
    touched,      \* node -> should_execute of its running wrapper
    run,          \* number of the current call of execute_dependency_graph
    prevOK,       \* the previous call returned normally, with no failure
    between,      \* what was done after call between.run ended
    invoked,      \* history: nodes whose action.execute has been called
    innerRan,     \* history: nodes whose wrapped inner action has been called
    op,           \* the last operation called on a FileLoader or on a Node
    steps,        \* number of such operations called so far
    phase,        \* "work" | "saved" (save_cache has written) | "fresh" (a
                  \* FileLoader has been constructed on the saved file)
    loaded,       \* paths whose File object holds a hash that load_file took
                  \* from the disk as it is
    current,      \* keys whose digest in FileLoader._cache was taken from the
                  \* disk as it is
    recorded,     \* keys of the cache file written by the last save_cache whose
                  \* digest was taken from the disk as it is
    todo,         \* command -> the files the loop "for file in files" of its
                  \* wrapper has not visited yet
    writing,      \* command -> the file whose hash its wrapper has set and
                  \* whose status it has not set yet, "" when there is none
    pending,      \* command -> the dict its save_cache has built and not
                  \* yet dumped
    fileState     \* the cache file: "complete" | "truncated" (opened with
                  \* 'w', nothing dumped yet) | "torn"

vars == <<kind, preds, succs, action, targets, n_threads, pc, todoT, stack,
          nodes, visiting, in_degree, ready, futures, done, cur, hsucc,
          completed, build_failed, task, outcome, fs, hash, status, cache,
          cacheFile, touched, run, prevOK, between, invoked, innerRan,
          op, steps, phase, loaded, current, recorded,
          todo, writing, pending, fileState>>

graphVars == <<kind, preds, succs, action, targets, n_threads>>
collectVars == <<todoT, stack, nodes, visiting>>
loopVars == <<in_degree, ready, futures, done, cur, hsucc, completed>>
loaderVars == <<fs, hash, status, cache, cacheFile>>
runVars == <<run, prevOK, between>>
buildVars == <<loaderVars, touched, runVars, innerRan>>
unitVars == <<op, steps, phase, loaded, current, recorded>>
stepVars == <<todo, writing, pending, fileState>>

\* ------------------------------------------------------------------ helpers

Range(s) == {s[i] : i \in 1..Len(s)}

\* All orders in which a for-loop may walk the set S (set iteration order is
\* arbitrary).
Orders(S) ==
    {s \in [1..Cardinality(S) -> S] : \A i, j \in 1..Cardinality(S) : s[i] = s[j] => i = j}

RemoveFirst(s, x) ==
    LET i == CHOOSE k \in 1..Len(s) : s[k] = x /\ \A j \in 1..(k - 1) : s[j] # x
    IN  SubSeq(s, 1, i - 1) \o SubSeq(s, i + 1, Len(s))

\* isinstance(node, (Data, File)) and isinstance(node, Command)
IsData(n) == kind[n] \in {"File", "Data"}
IsCommand(n) == kind[n] = "Command"

\* (mutant) Every node is taken to carry an Action.
HasActionAlways(n) == TRUE

\* hasattr(node, 'action') and isinstance(node.action, Action)
HasAction(n) == action[n] # "none"

\* -------------------------------------------------- FileLoader and digests

\* The empty digest "".
NoDigest == <<>>

\* hashlib.sha256(content).hexdigest(): one digest per content, never "".
Sha256(data) == <<"sha256", data>>

NoFile == [type |-> "absent", data |-> 0]
RegularFile(data) == [type |-> "file", data |-> data]

\* os.path.exists(path) on the disk d
Exists(d, p) == d[p].type # "absent"

\* (mutant) _compute_hash without the test for a directory.
compute_hash_of_directories(d, p) ==
    IF ~Exists(d, p) THEN NoDigest ELSE Sha256(d[p].data)

\* FileLoader._compute_hash(path) on the disk d
compute_hash(d, p) ==
    IF ~Exists(d, p) \/ d[p].type = "dir" THEN NoDigest ELSE Sha256(d[p].data)

EmptyMap == [k \in {} |-> NoDigest]

\* (mutant) A lookup that never finds the key.
GetDefault(c, k) == NoDigest

\* dict.get(key, "")
Get(c, k) == IF k \in DOMAIN c THEN c[k] ELSE NoDigest

\* (mutant) load_file without the test that the current digest is non-empty.
LoadStatusEmptyMatches(d, c, p) ==
    IF ~Exists(d, p) THEN "Deleted"
    ELSE IF Get(c, p) = NoDigest /\ compute_hash(d, p) # NoDigest THEN "Created"
    ELSE IF compute_hash(d, p) = Get(c, p) THEN "Unchanged"
    ELSE "Modified"

\* The status FileLoader.load_file gives the path p, against the cache c.
LoadStatus(d, c, p) ==
    IF ~Exists(d, p) THEN "Deleted"
    ELSE IF Get(c, p) = NoDigest /\ compute_hash(d, p) # NoDigest THEN "Created"
    ELSE IF compute_hash(d, p) = Get(c, p) /\ compute_hash(d, p) # NoDigest THEN "Unchanged"
    ELSE "Modified"

\* (mutant) load_file leaving FileLoader._cache as it is.
CacheAfterLoadKeeps(d, c, P) == c

\* FileLoader._cache after load_file has been called for every path of P:
\* self._cache[rel_path] = current_hash.
CacheAfterLoad(d, c, P) ==
    [k \in DOMAIN c \cup P |-> IF k \in P THEN compute_hash(d, k) ELSE c[k]]

\* FileLoader._load_cache(): the map of the cache file, {} when it is missing.
load_cache(cf) == IF cf.present THEN cf.map ELSE EmptyMap

\* The cache file after save_cache(files): a fresh dict holding the given
\* files only, h being their hashes.
save_cache(files, h) == [present |-> TRUE, map |-> [f \in files |-> h[f]]]

\* ------------------------------------------------- ExecuteOnTouchedAction

IsFile(n) == kind[n] = "File"

\* should_execute: some predecessor File is Created, Modified or Deleted.
should_execute(n) ==
    \E p \in preds[n] : IsFile(p) /\ status[p] \in {"Created", "Modified", "Deleted"}

\* files: the File nodes among the predecessors and the successors.
WrapperFiles(n) == {m \in preds[n] \cup succs[n] : IsFile(m)}

\* (mutant) The touched branch with the comparison of the digests made before
\* the test of the empty cached digest.
TouchedStatusCompareFirst(d, c, f) ==
    IF Exists(d, f)
    THEN IF compute_hash(d, f) = Get(c, f) THEN "Unchanged"
         ELSE IF Get(c, f) = NoDigest THEN "Created"
         ELSE "Modified"
    ELSE "Deleted"

\* The status given to a file after the inner action has succeeded.
TouchedStatus(d, c, f) ==
    IF Exists(d, f)
    THEN IF Get(c, f) = NoDigest THEN "Created"
         ELSE IF compute_hash(d, f) # Get(c, f) THEN "Modified"
         ELSE "Unchanged"
    ELSE "Deleted"

\* (mutant) The skip branch classifying as the touched branch does.
SkippedStatusAsTouched(d, c, f) ==
    IF Exists(d, f)
    THEN IF Get(c, f) = NoDigest THEN "Created"
         ELSE IF compute_hash(d, f) # Get(c, f) THEN "Modified"
         ELSE "Unchanged"
    ELSE "Deleted"

\* The status given to a file when the inner action is skipped.
SkippedStatus(d, c, f) ==
    IF Exists(d, f)
    THEN IF compute_hash(d, f) = Get(c, f) /\ compute_hash(d, f) # NoDigest
         THEN "Unchanged"
         ELSE "Modified"
    ELSE "Deleted"

RECURSIVE SumData(_, _)
SumData(d, S) ==
    IF S = {} THEN 0
    ELSE LET p == CHOOSE x \in S : TRUE
         IN  d[p].data + SumData(d, S \ {p})

\* The disk after the inner action of the command n has succeeded: every
\* successor file is written, its content a function of the inputs.
InnerWrites(d, n) ==
    [p \in DOMAIN d |->
        IF p \in succs[n] /\ IsFile(p)
        THEN RegularFile(1 + SumData(d, {q \in preds[n] : IsFile(q)}))
        ELSE d[p]]

\* ----------------------------------------------------------------- Init

\* No FileLoader or Node operation has been called on its own, no wrapper is
\* part-way through its files and no save_cache is part-way through its write.
NoOp ==
    /\ op = [name |-> "none"]
    /\ steps = 0
    /\ phase = "work"
    /\ loaded = {}
    /\ current = {}
    /\ recorded = {}
    /\ todo = [n \in Nodes |-> {}]
    /\ writing = [n \in Nodes |-> ""]
    /\ pending = [n \in Nodes |-> EmptyMap]
    /\ fileState = "complete"

\* The classes of the node objects: Files and Commands, and the same with c2
\* a bare Node.
KindChoices ==
    LET typed == [n \in Nodes |-> IF n \in Files THEN "File" ELSE "Command"]
    IN  {typed, [typed EXCEPT !["c2"] = "Node"]}

Init ==
    /\ \E E \in SUBSET CandEdges : \E w \in Wirings(E) :
          /\ preds = w.p
          /\ succs = w.s
    /\ kind \in KindChoices
    /\ action = [n \in Nodes |-> IF n \in Commands THEN "plain" ELSE "none"]
    /\ targets \in TargetChoices
    /\ n_threads \in 0..MaxThreads
    /\ pc = "call"
    /\ todoT = {}
    /\ stack = <<>>
    /\ nodes = {}
    /\ visiting = {}
    /\ in_degree = <<>>
    /\ ready = <<>>
    /\ futures = <<>>
    /\ done = {}
    /\ cur = ""
    /\ hsucc = {}
    /\ completed = {}
    /\ build_failed = FALSE
    /\ task = [n \in Nodes |-> "idle"]
    /\ outcome = "none"
    /\ invoked = {}
    /\ fs = [f \in Files |-> NoFile]
    /\ hash = [f \in Files |-> NoDigest]
    /\ status = [f \in Files |-> "Unchanged"]
    /\ cache = EmptyMap
    /\ cacheFile = [present |-> FALSE, map |-> EmptyMap]
    /\ touched = [n \in Nodes |-> FALSE]
    /\ run = 1
    /\ prevOK = FALSE
    /\ between = [run |-> 0, edited |-> {}, reloaded |-> FALSE]
    /\ innerRan = {}
    /\ NoOp

\* ------------------------------------------------- collection & validation

\* (mutant) The alternating-structure check without the loops over the
\* successors.
AlternatesPredsOnly(n) ==
    IF IsData(n) THEN \A p \in preds[n] : IsCommand(p)
    ELSE IF IsCommand(n) THEN \A p \in preds[n] : IsData(p)
    ELSE FALSE

\* The alternating-structure check of collect_nodes: TRUE when the node passes.
Alternates(n) ==
    IF IsData(n)
    THEN (\A p \in preds[n] : IsCommand(p)) /\ (\A s \in succs[n] : IsCommand(s))
    ELSE IF IsCommand(n)
    THEN (\A p \in preds[n] : IsData(p)) /\ (\A s \in succs[n] : IsData(s))
    ELSE FALSE

\* if not targets: raise ValueError; otherwise start walking the targets.
Call ==
    /\ pc = "call"
    /\ IF targets = {}
       THEN /\ pc' = "end"
            /\ outcome' = "ValueError"
            /\ todoT' = todoT
       ELSE /\ pc' = "collect"
            /\ outcome' = outcome
            /\ todoT' = targets
    /\ UNCHANGED <<graphVars, unitVars, stepVars, buildVars, stack, nodes, visiting, loopVars, build_failed, task, invoked>>

\* One call collect_nodes(n), up to its loop over the predecessors; rest is
\* the caller's stack.
collect_nodes(n, rest) ==
    IF n \in visiting
    THEN /\ pc' = "end"
         /\ outcome' = "CycleError"
         /\ UNCHANGED <<stack, nodes, visiting>>
    ELSE IF n \in nodes
    THEN /\ stack' = rest
         /\ UNCHANGED <<pc, outcome, nodes, visiting>>
    ELSE IF ~Alternates(n)
    THEN /\ pc' = "end"
         /\ outcome' = "StructError"
         /\ visiting' = visiting \cup {n}
         /\ UNCHANGED <<stack, nodes>>
    ELSE /\ visiting' = visiting \cup {n}
         /\ nodes' = nodes \cup {n}
         /\ stack' = <<[node |-> n, todo |-> preds[n]]>> \o rest
         /\ UNCHANGED <<pc, outcome>>

\* for target in targets: collect_nodes(target)
CollectTarget ==
    /\ pc = "collect"
    /\ stack = <<>>
    /\ todoT # {}
    /\ \E t \in todoT :
          /\ todoT' = todoT \ {t}
          /\ collect_nodes(t, <<>>)
    /\ UNCHANGED <<graphVars, unitVars, stepVars, buildVars, loopVars, build_failed, task, invoked>>

\* for pred in node.predecessors: collect_nodes(pred)
CollectPred ==
    /\ pc = "collect"
    /\ stack # <<>>
    /\ \E p \in Head(stack).todo :
          collect_nodes(p, <<[Head(stack) EXCEPT !.todo = @ \ {p}]>> \o Tail(stack))
    /\ UNCHANGED <<graphVars, unitVars, stepVars, buildVars, todoT, loopVars, build_failed, task, invoked>>

\* visiting.remove(node) and return, once every predecessor has been walked.
CollectReturn ==
    /\ pc = "collect"
    /\ stack # <<>>
    /\ Head(stack).todo = {}
    /\ visiting' = visiting \ {Head(stack).node}
    /\ stack' = Tail(stack)
    /\ UNCHANGED <<graphVars, unitVars, stepVars, buildVars, pc, outcome, todoT, nodes, loopVars, build_failed, task, invoked>>

\* ------------------------------------------------------- the dispatch loop

\* in_degree = {node: len(node.predecessors & nodes) for node in nodes}
InDegrees == [n \in nodes |-> Cardinality(preds[n] \cap nodes)]

\* The ready queue is seeded with the nodes of in-degree 0, in the order the
\* for-loop over the set happens to walk them.
SeedQueue ==
    /\ pc = "collect"
    /\ stack = <<>>
    /\ todoT = {}
    /\ in_degree' = InDegrees
    /\ ready' \in Orders({n \in nodes : InDegrees[n] = 0})
    /\ pc' = "loop"
    /\ UNCHANGED <<graphVars, unitVars, stepVars, buildVars, collectVars, futures, done, cur, hsucc, completed,
                   build_failed, task, outcome, invoked>>

\* while not ready.empty() or futures: ... with lock: if not build_failed:
LoopHead ==
    /\ pc = "loop"
    /\ pc' = IF ready = <<>> /\ futures = <<>> THEN "post"
             ELSE IF ~build_failed THEN "submit"
             ELSE "wait"
    /\ UNCHANGED <<graphVars, unitVars, stepVars, buildVars, collectVars, loopVars, build_failed, task, outcome, invoked>>

\* (mutant) The guard of the submission loop, off by one.
MaySubmitOneMore == ready # <<>> /\ Len(futures) <= n_threads

\* The guard of the submission loop.
MaySubmit == ready # <<>> /\ Len(futures) < n_threads

\* while not ready.empty() and len(futures) < n_threads: one iteration, or
\* the exit of the loop.
Submit ==
    /\ pc = "submit"
    /\ IF MaySubmit
       THEN /\ ready' = Tail(ready)
            /\ futures' = Append(futures, Head(ready))
            /\ task' = [task EXCEPT ![Head(ready)] = "submitted"]
            /\ pc' = pc
       ELSE /\ pc' = "wait"
            /\ UNCHANGED <<ready, futures, task>>
    /\ UNCHANGED <<graphVars, unitVars, stepVars, buildVars, collectVars, in_degree, done, cur, hsucc, completed,
                   build_failed, outcome, invoked>>

\* A future is done once its task has returned or raised (BuildFailure, or
\* an exception of the action itself).
IsDone(n) == task[n] \in {"ret_true", "ret_false", "raised", "excepted"}

\* if futures: done, _ = wait(futures, return_when=FIRST_COMPLETED); with no
\* future the loop goes round again without waiting.
Wait ==
    /\ pc = "wait"
    /\ IF futures = <<>>
       THEN /\ pc' = "loop"
            /\ done' = done
       ELSE /\ \E n \in Range(futures) : IsDone(n)
            /\ done' = {n \in Range(futures) : IsDone(n)}
            /\ pc' = "handle"
    /\ UNCHANGED <<graphVars, unitVars, stepVars, buildVars, collectVars, in_degree, ready, futures, cur, hsucc,
                   completed, build_failed, task, outcome, invoked>>

\* for future in done: success = future.result() ...  An exception other
\* than BuildFailure is not caught: it leaves the loops.
HandleBegin ==
    /\ pc = "handle"
    /\ cur = ""
    /\ IF done = {}
       THEN /\ pc' = "loop"
            /\ UNCHANGED <<done, cur, hsucc, build_failed>>
       ELSE \E n \in done :
              IF task[n] = "excepted"
              THEN /\ pc' = "unwind"
                   /\ UNCHANGED <<done, cur, hsucc, build_failed>>
              ELSE /\ done' = done \ {n}
                   /\ cur' = n
                   /\ pc' = pc
                   /\ hsucc' = IF task[n] = "ret_true" THEN succs[n] \cap nodes ELSE {}
                   /\ build_failed' = IF task[n] = "raised" THEN TRUE ELSE build_failed
    /\ UNCHANGED <<graphVars, unitVars, stepVars, buildVars, collectVars, in_degree, ready, futures, completed,
                   task, outcome, invoked>>

\* (mutant) The in-degree of a successor is taken down by two.
DecrementTwice(s) == in_degree[s] - 2

\* The in-degree of one successor after the node cur has succeeded.
Decrement(s) == in_degree[s] - 1

\* (mutant) A successor is put on the ready queue while one predecessor of it
\* is still to finish.
EnqueuesEarly(d) == d <= 1 /\ ~build_failed

\* Whether a successor whose in-degree is d is put on the ready queue.
Enqueues(d) == d = 0 /\ ~build_failed

\* for succ in node.successors & nodes: in_degree[succ] -= 1; if ... ready.put
HandleSucc ==
    /\ pc = "handle"
    /\ cur # ""
    /\ \E s \in hsucc :
          /\ hsucc' = hsucc \ {s}
          /\ in_degree' = [in_degree EXCEPT ![s] = Decrement(s)]
          /\ ready' = IF Enqueues(Decrement(s)) THEN Append(ready, s) ELSE ready
    /\ UNCHANGED <<graphVars, unitVars, stepVars, buildVars, collectVars, pc, futures, done, cur, completed,
                   build_failed, task, outcome, invoked>>

\* completed.add(node) after a success; futures.remove(future) in every case.
HandleEnd ==
    /\ pc = "handle"
    /\ cur # ""
    /\ hsucc = {}
    /\ completed' = IF task[cur] = "ret_true" THEN completed \cup {cur} ELSE completed
    /\ futures' = RemoveFirst(futures, cur)
    /\ cur' = ""
    /\ UNCHANGED <<graphVars, unitVars, stepVars, buildVars, collectVars, pc, in_degree, ready, done, hsucc,
                   build_failed, task, outcome, invoked>>

\* (mutant) The final check without its test of build_failed.
IncompleteDespiteFailure == Cardinality(completed) # Cardinality(nodes)

\* if len(completed) != len(nodes) and not build_failed
Incomplete == Cardinality(completed) # Cardinality(nodes) /\ ~build_failed

\* The check after the pool has shut down: RuntimeError "Execution incomplete"
\* or a normal return.
PostCheck ==
    /\ pc = "post"
    /\ pc' = "end"
    /\ outcome' = IF Incomplete THEN "Incomplete" ELSE "returned"
    /\ UNCHANGED <<graphVars, unitVars, stepVars, buildVars, collectVars, loopVars, build_failed, task, invoked>>

\* ------------------------------------------------------ execute_node tasks

\* A worker picks the task up: if build_failed: return False.  A node without
\* an Action returns True at once.
TaskStart(n) ==
    /\ task[n] = "submitted"
    /\ task' = [task EXCEPT ![n] = IF build_failed THEN "ret_false"
                                   ELSE IF HasAction(n) THEN "checked"
                                   ELSE "ret_true"]
    /\ UNCHANGED <<graphVars, unitVars, stepVars, buildVars, collectVars, loopVars, pc, build_failed, outcome, invoked>>

\* success = node.action.execute(node, node.predecessors, node.successors):
\* the call begins.  The wrapper decides should_execute and, when it holds,
\* calls its inner action.
TaskInvoke(n) ==
    /\ task[n] = "checked"
    /\ task' = [task EXCEPT ![n] = "running"]
    /\ invoked' = invoked \cup {n}
    /\ IF action[n] = "wrapped"
       THEN /\ touched' = [touched EXCEPT ![n] = should_execute(n)]
            /\ innerRan' = IF should_execute(n) THEN innerRan \cup {n} ELSE innerRan
       ELSE UNCHANGED <<touched, innerRan>>
    /\ UNCHANGED <<graphVars, unitVars, stepVars, loaderVars, runVars, collectVars, loopVars, pc,
                   build_failed, outcome>>

\* What the running action of n may return: an action, wrapped or not, succeeds
\* or fails; a wrapper that skips its inner action returns True.
Results(n) == IF action[n] = "wrapped" /\ ~touched[n] THEN {TRUE} ELSE BOOLEAN

\* The disk once the inner action of n has succeeded or has been skipped.
SettledDisk(n) == IF touched[n] THEN InnerWrites(fs, n) ELSE fs

\* file.hash = self.file_loader._compute_hash(file.path) for the wrapper's files
SettledHash(n) ==
    [f \in Files |-> IF f \in WrapperFiles(n) THEN compute_hash(SettledDisk(n), f)
                     ELSE hash[f]]

\* The loop "for file in files" of either branch of the wrapper.
Reclassify(n) ==
    /\ fs' = SettledDisk(n)
    /\ hash' = SettledHash(n)
    /\ status' = [f \in Files |->
                     IF f \notin WrapperFiles(n) THEN status[f]
                     ELSE IF touched[n] THEN TouchedStatus(SettledDisk(n), cache, f)
                     ELSE SkippedStatus(SettledDisk(n), cache, f)]
    /\ cache' = cache

\* The wrapper after its inner action has succeeded, or has been skipped:
\* every file of predecessors | successors is digested again and given a
\* status against FileLoader._cache, and save_cache(files) is called.
WrapperSettles(n) ==
    /\ Reclassify(n)
    /\ cacheFile' = save_cache(WrapperFiles(n), SettledHash(n))

\* (mutant) The wrapper reclassifying and saving whatever its inner action
\* has returned.
TaskFinishSettlesAlways(n) ==
    /\ task[n] = "running"
    /\ \E success \in Results(n) :
          /\ task' = [task EXCEPT ![n] = IF success THEN "ret_true" ELSE "raised"]
          /\ build_failed' = IF success THEN build_failed ELSE TRUE
          /\ IF action[n] = "wrapped"
             THEN WrapperSettles(n)
             ELSE UNCHANGED loaderVars
    /\ UNCHANGED <<graphVars, unitVars, stepVars, touched, runVars, innerRan, collectVars, loopVars, pc,
                   outcome, invoked>>

\* The action returns success (TRUE) or failure (FALSE); on failure the task
\* sets build_failed and raises BuildFailure.
TaskFinish(n) ==
    /\ task[n] = "running"
    /\ \E success \in Results(n) :
          /\ task' = [task EXCEPT ![n] = IF success THEN "ret_true" ELSE "raised"]
          /\ build_failed' = IF success THEN build_failed ELSE TRUE
          /\ IF action[n] = "wrapped" /\ success
             THEN WrapperSettles(n)
             ELSE UNCHANGED loaderVars
    /\ UNCHANGED <<graphVars, unitVars, stepVars, touched, runVars, innerRan, collectVars, loopVars, pc,
                   outcome, invoked>>

\* ------------------------------------------------------- between two calls

\* A source of the build: a file on disk that no command produces.
IsSource(f) == f \in Files /\ preds[f] = {} /\ fs[f].type = "file"

\* What has been done since the current call ended.
Since == IF between.run = run THEN between
         ELSE [run |-> run, edited |-> {}, reloaded |-> FALSE]

\* The user edits a source file after a call has ended.
Edit(f) ==
    /\ pc = "end"
    /\ run < MaxRuns
    /\ IsSource(f)
    /\ f \in nodes
    /\ f \notin Since.edited
    /\ ~Since.reloaded
    /\ fs' = [fs EXCEPT ![f] = RegularFile(@.data + 1)]
    /\ between' = [Since EXCEPT !.edited = @ \cup {f}]
    /\ UNCHANGED <<graphVars, unitVars, stepVars, collectVars, loopVars, pc, build_failed, task, outcome,
                   hash, status, cache, cacheFile, touched, run, prevOK, invoked, innerRan>>

\* The build script is started afresh: FileLoader(cache_file, root) reads the
\* cache file and load_file makes every File node anew, wired as before.
Reload ==
    /\ pc = "end"
    /\ run < MaxRuns
    /\ ~Since.reloaded
    /\ cache' = CacheAfterLoad(fs, load_cache(cacheFile), Files)
    /\ hash' = [f \in Files |-> compute_hash(fs, f)]
    /\ status' = [f \in Files |-> LoadStatus(fs, load_cache(cacheFile), f)]
    /\ between' = [Since EXCEPT !.reloaded = TRUE]
    /\ UNCHANGED <<graphVars, unitVars, stepVars, collectVars, loopVars, pc, build_failed, task, outcome,
                   fs, cacheFile, touched, run, prevOK, invoked, innerRan>>

\* execute_dependency_graph is called again on the same targets.
Rerun ==
    /\ pc = "end"
    /\ run < MaxRuns
    /\ run' = run + 1
    /\ prevOK' = (outcome = "returned" /\ ~build_failed)
    /\ between' = Since
    /\ pc' = "call"
    /\ todoT' = {}
    /\ stack' = <<>>
    /\ nodes' = {}
    /\ visiting' = {}
    /\ in_degree' = <<>>
    /\ ready' = <<>>
    /\ futures' = <<>>
    /\ done' = {}
    /\ cur' = ""
    /\ hsucc' = {}
    /\ completed' = {}
    /\ build_failed' = FALSE
    /\ task' = [n \in Nodes |-> "idle"]
    /\ outcome' = "none"
    /\ invoked' = {}
    /\ innerRan' = {}
    /\ touched' = [n \in Nodes |-> FALSE]
    /\ UNCHANGED <<graphVars, unitVars, stepVars, loaderVars>>

MainThread ==
    \/ Call
    \/ CollectTarget
    \/ CollectPred
    \/ CollectReturn
    \/ SeedQueue
    \/ LoopHead
    \/ Submit
    \/ Wait
    \/ HandleBegin
    \/ HandleSucc
    \/ HandleEnd
    \/ PostCheck

Worker(n) ==
    \/ TaskStart(n)
    \/ TaskInvoke(n)
    \/ TaskFinish(n)

Next ==
    \/ MainThread
    \/ \E n \in Nodes : Worker(n)

Spec == Init /\ [][Next]_vars

\* The graphs of the incremental builds: wired with add_predecessors from the
\* bipartite, acyclic edges.
BuildEdges ==
    { <<"f1", "c1">>, <<"c1", "f2">>, <<"f2", "c2">>, <<"c2", "f3">>, <<"f1", "c2">> }

\* The graphs a build script wires: at least one command, and every command
\* of the graph has an input file and an output file.
BuildGraphs ==
    {E \in SUBSET BuildEdges :
        /\ E # {}
        /\ \A c \in Commands :
              (PredsOf(E)[c] # {}) <=> (SuccsOf(E)[c] # {})}

BuildTargets == { {"f3"}, {"f2", "f3"} }

\* A build script in a fresh checkout: the sources are on disk, no output and
\* no cache file are; every command wraps its action in ExecuteOnTouchedAction
\* and every File node comes from FileLoader.load_file.
InitBuild ==
    /\ \E E \in BuildGraphs :
          /\ preds = AddPredecessors(E).p
          /\ succs = AddPredecessors(E).s
          /\ fs = [f \in Files |-> IF PredsOf(E)[f] = {} THEN RegularFile(1) ELSE NoFile]
    /\ kind = [n \in Nodes |-> IF n \in Files THEN "File" ELSE "Command"]
    /\ action = [n \in Nodes |-> IF n \in Commands THEN "wrapped" ELSE "none"]
    /\ targets \in BuildTargets
    /\ n_threads \in 1..MaxThreads
    /\ pc = "call"
    /\ todoT = {}
    /\ stack = <<>>
    /\ nodes = {}
    /\ visiting = {}
    /\ in_degree = <<>>
    /\ ready = <<>>
    /\ futures = <<>>
    /\ done = {}
    /\ cur = ""
    /\ hsucc = {}
    /\ completed = {}
    /\ build_failed = FALSE
    /\ task = [n \in Nodes |-> "idle"]
    /\ outcome = "none"
    /\ invoked = {}
    /\ cacheFile = [present |-> FALSE, map |-> EmptyMap]
    /\ cache = CacheAfterLoad(fs, load_cache(cacheFile), Files)
    /\ hash = [f \in Files |-> compute_hash(fs, f)]
    /\ status = [f \in Files |-> LoadStatus(fs, load_cache(cacheFile), f)]
    /\ touched = [n \in Nodes |-> FALSE]
    /\ run = 1
    /\ prevOK = FALSE
    /\ between = [run |-> 0, edited |-> {}, reloaded |-> TRUE]
    /\ innerRan = {}
    /\ NoOp

NextBuild ==
    \/ MainThread
    \/ \E n \in Nodes : Worker(n)
    \/ \E f \in Files : Edit(f)
    \/ Reload
    \/ Rerun

BuildSpec == InitBuild /\ [][NextBuild]_vars


\* The scheduling of the threads: the calling thread and every pool worker
\* keep running while they have a step to take.
Fairness == WF_vars(MainThread) /\ \A n \in Nodes : WF_vars(Worker(n))

FairSpec == Init /\ [][Next]_vars /\ Fairness

\* ------------------------------------------------- actions that raise

\* The running action of n raises an exception instead of returning: the
\* inner action of a touched wrapper (or a plain action) raises, or
\* save_cache cannot write the cache file after the wrapper has looked at its
\* files.  execute_node does not catch it.
TaskRaise(n) ==
    /\ task[n] = "running"
    /\ task' = [task EXCEPT ![n] = "excepted"]
    /\ \/ /\ action[n] = "wrapped" => touched[n]
          /\ UNCHANGED loaderVars
       \/ /\ action[n] = "wrapped"
          /\ Reclassify(n)
          /\ cacheFile' = cacheFile
    /\ UNCHANGED <<graphVars, unitVars, stepVars, touched, runVars, innerRan, collectVars, loopVars,
                   pc, build_failed, outcome, invoked>>

\* The exception leaves the with-block: ThreadPoolExecutor.__exit__ waits for
\* every submitted task, then the exception leaves execute_dependency_graph.
Unwind ==
    /\ pc = "unwind"
    /\ \A n \in Range(futures) : IsDone(n)
    /\ pc' = "end"
    /\ outcome' = "Exception"
    /\ UNCHANGED <<graphVars, unitVars, stepVars, buildVars, collectVars, loopVars, build_failed,
                   task, invoked>>

NextExc ==
    \/ MainThread
    \/ \E n \in Nodes : Worker(n)
    \/ \E n \in Nodes : TaskRaise(n)
    \/ Unwind

\* A build of wrapped commands whose actions may raise.
ExcSpec == InitBuild /\ [][NextExc]_vars

\* ------------------------------------------------- the FileLoader on its own

\* The variables of a call of execute_dependency_graph.
execVars == <<collectVars, loopVars, pc, build_failed, task, outcome, invoked,
              touched, runVars, innerRan, stepVars>>

\* No call of execute_dependency_graph is under way.
NoCall ==
    /\ targets = {}
    /\ n_threads = 1
    /\ pc = "none"
    /\ todoT = {}
    /\ stack = <<>>
    /\ nodes = {}
    /\ visiting = {}
    /\ in_degree = <<>>
    /\ ready = <<>>
    /\ futures = <<>>
    /\ done = {}
    /\ cur = ""
    /\ hsucc = {}
    /\ completed = {}
    /\ build_failed = FALSE
    /\ task = [n \in Nodes |-> "idle"]
    /\ outcome = "none"
    /\ invoked = {}
    /\ touched = [n \in Nodes |-> FALSE]
    /\ run = 1
    /\ prevOK = FALSE
    /\ between = [run |-> 0, edited |-> {}, reloaded |-> FALSE]
    /\ innerRan = {}

\* The paths the loader is asked about.
LoaderPaths == {"f1", "f2"}

Directory == [type |-> "dir", data |-> 0]

\* What a path may be on disk when the loader is constructed.
DiskChoices == {NoFile, RegularFile(1), Directory}

\* A FileLoader constructed where no cache file exists; the File objects not
\* made by load_file are File(path), with hash "" and status UNCHANGED.
InitLoader ==
    /\ preds = [n \in Nodes |-> {}]
    /\ succs = [n \in Nodes |-> {}]
    /\ kind = [n \in Nodes |-> IF n \in Files THEN "File" ELSE "Command"]
    /\ action = [n \in Nodes |-> "none"]
    /\ NoCall
    /\ fs \in [Files -> DiskChoices]
    /\ \A f \in Files \ LoaderPaths : fs[f] = NoFile
    /\ cacheFile = [present |-> FALSE, map |-> EmptyMap]
    /\ cache = load_cache(cacheFile)
    /\ hash = [f \in Files |-> NoDigest]
    /\ status = [f \in Files |-> "Unchanged"]
    /\ NoOp

\* Something outside the loader writes, deletes or replaces the path p.
FsChange(p) ==
    /\ steps < MaxSteps
    /\ \E v \in {NoFile, RegularFile(fs[p].data + 1), Directory} :
          /\ v # fs[p]
          /\ fs' = [fs EXCEPT ![p] = v]
    /\ op' = [name |-> "fs", path |-> p]
    /\ steps' = steps + 1
    /\ loaded' = loaded \ {p}
    /\ current' = current \ {p}
    /\ recorded' = recorded \ {p}
    /\ UNCHANGED <<graphVars, execVars, hash, status, cache, cacheFile, phase>>

\* file = file_loader.load_file(p)
LoadFile(p) ==
    /\ steps < MaxSteps
    /\ status' = [status EXCEPT ![p] = LoadStatus(fs, cache, p)]
    /\ hash' = [hash EXCEPT ![p] = compute_hash(fs, p)]
    /\ cache' = CacheAfterLoad(fs, cache, {p})
    /\ op' = [name |-> "load", path |-> p]
    /\ steps' = steps + 1
    /\ loaded' = loaded \cup {p}
    /\ current' = current \cup {p}
    /\ UNCHANGED <<graphVars, execVars, fs, cacheFile, phase, recorded>>

\* The cache file after save_cache() without files: the in-memory map c.
save_cache_all(c) == [present |-> TRUE, map |-> c]

\* file_loader.save_cache(files), or file_loader.save_cache() when given is
\* FALSE.
SaveCache(given, files) ==
    /\ steps < MaxSteps
    /\ cacheFile' = IF given THEN save_cache(files, hash) ELSE save_cache_all(cache)
    /\ op' = [name |-> "save", given |-> given, files |-> files]
    /\ steps' = steps + 1
    /\ phase' = "saved"
    /\ recorded' = IF given THEN files \cap loaded ELSE (DOMAIN cache) \cap current
    /\ UNCHANGED <<graphVars, execVars, fs, hash, status, cache, loaded, current>>

\* file_loader = FileLoader(cache_file, root_dir): a new loader on the same
\* cache file; the File objects made so far stay as they are.
NewLoader ==
    /\ steps < MaxSteps
    /\ cache' = load_cache(cacheFile)
    /\ op' = [name |-> "new"]
    /\ steps' = steps + 1
    /\ phase' = IF phase = "work" THEN "work" ELSE "fresh"
    /\ current' = recorded
    /\ UNCHANGED <<graphVars, execVars, fs, hash, status, cacheFile, loaded, recorded>>

NextLoader ==
    \/ \E p \in LoaderPaths : FsChange(p)
    \/ \E p \in LoaderPaths : LoadFile(p)
    \/ \E files \in SUBSET LoaderPaths : SaveCache(TRUE, files)
    \/ SaveCache(FALSE, {})
    \/ NewLoader

LoaderSpec == InitLoader /\ [][NextLoader]_vars

\* ------------------------------------------------- the wrapper on its own

Statuses == {"Unchanged", "Created", "Modified", "Deleted"}

\* The digests the cache may hold for a path when the wrapper is called.
CachedChoices == {NoDigest, Sha256(1), Sha256(2)}

\* A worker is about to call the ExecuteOnTouchedAction of the command c1,
\* whose predecessors are f1, or f1 and f2, and whose successor is f3.  f1 is
\* a File or a Data that is not a File; statuses, disk and cache are whatever
\* earlier loads and commands have left.
InitWrap ==
    /\ \E P \in {{"f1"}, {"f1", "f2"}} :
          /\ preds = AddPredecessors({<<p, "c1">> : p \in P} \cup {<<"c1", "f3">>}).p
          /\ succs = AddPredecessors({<<p, "c1">> : p \in P} \cup {<<"c1", "f3">>}).s
    /\ \E k1 \in {"File", "Data"} :
          kind = [n \in Nodes |-> IF n \in Commands THEN "Command"
                                  ELSE IF n = "f1" THEN k1 ELSE "File"]
    /\ action = [n \in Nodes |-> IF n = "c1" THEN "wrapped" ELSE "none"]
    /\ targets = {"f3"}
    /\ n_threads = 1
    /\ pc = "wait"
    /\ todoT = {}
    /\ stack = <<>>
    /\ nodes = {"c1", "f3"} \cup preds["c1"]
    /\ visiting = {}
    /\ in_degree = [n \in nodes |-> IF n = "f3" THEN 1 ELSE 0]
    /\ ready = <<>>
    /\ futures = <<"c1">>
    /\ done = {}
    /\ cur = ""
    /\ hsucc = {}
    /\ completed = preds["c1"]
    /\ build_failed = FALSE
    /\ task = [n \in Nodes |-> IF n = "c1" THEN "checked"
                                ELSE IF n \in preds["c1"] THEN "ret_true" ELSE "idle"]
    /\ outcome = "none"
    /\ invoked = {}
    /\ touched = [n \in Nodes |-> FALSE]
    /\ run = 1
    /\ prevOK = FALSE
    /\ between = [run |-> 0, edited |-> {}, reloaded |-> FALSE]
    /\ innerRan = {}
    /\ fs \in [Files -> DiskChoices]
    /\ fs["f3"] # Directory
    /\ kind["f1"] = "Data" => fs["f1"] = NoFile
    /\ hash = [f \in Files |-> compute_hash(fs, f)]
    /\ status \in [Files -> Statuses]
    /\ status["f3"] = "Unchanged"
    /\ "f2" \notin preds["c1"] => status["f2"] = "Unchanged" /\ fs["f2"] = NoFile
    /\ cache \in [Files -> CachedChoices]
    /\ cache["f3"] = NoDigest
    /\ "f2" \notin preds["c1"] => cache["f2"] = NoDigest
    /\ cacheFile = [present |-> FALSE, map |-> EmptyMap]
    /\ NoOp

NextWrap ==
    \/ TaskInvoke("c1")
    \/ TaskFinish("c1")

WrapSpec == InitWrap /\ [][NextWrap]_vars

\* ------------------------------------------------- wiring a graph

\* The nodes add_predecessors is called on and with.
WireNodes == {"f1", "c1", "f2"}

\* (mutant) add_predecessors that leaves the successors of the predecessors
\* alone.
add_predecessors_one_sided(g, self, P) ==
    [p |-> [g.p EXCEPT ![self] = @ \cup P], s |-> g.s]

\* self.add_predecessors(*P) on the edge sets g: for pred in predecessors:
\* self.predecessors.add(pred); pred.successors.add(self)
add_predecessors(g, self, P) ==
    [p |-> [g.p EXCEPT ![self] = @ \cup P],
     s |-> [n \in Nodes |-> IF n \in P THEN g.s[n] \cup {self} ELSE g.s[n]]]

\* Nodes as their constructors leave them: no edges.
InitWire ==
    /\ preds = [n \in Nodes |-> {}]
    /\ succs = [n \in Nodes |-> {}]
    /\ kind = [n \in Nodes |-> IF n \in Files THEN "File" ELSE "Command"]
    /\ action = [n \in Nodes |-> "none"]
    /\ NoCall
    /\ fs = [f \in Files |-> NoFile]
    /\ hash = [f \in Files |-> NoDigest]
    /\ status = [f \in Files |-> "Unchanged"]
    /\ cache = EmptyMap
    /\ cacheFile = [present |-> FALSE, map |-> EmptyMap]
    /\ NoOp

\* node.add_predecessors(*P); repeat tells that the call before it was the
\* same call.
Wire(node, P) ==
    /\ steps < MaxSteps
    /\ preds' = add_predecessors([p |-> preds, s |-> succs], node, P).p
    /\ succs' = add_predecessors([p |-> preds, s |-> succs], node, P).s
    /\ op' = [name |-> "add", node |-> node, preds |-> P,
              repeat |-> (op.name = "add" /\ op.node = node /\ op.preds = P)]
    /\ steps' = steps + 1
    /\ UNCHANGED <<kind, action, targets, n_threads, execVars, loaderVars,
                   phase, loaded, current, recorded>>

NextWire == \E node \in WireNodes : \E P \in SUBSET WireNodes : Wire(node, P)

WireSpec == InitWire /\ [][NextWire]_vars

\* ------------------------------------------------- properties of the graph

RECURSIVE PredClosure(_)
\* The nodes reached from the set S by walking predecessors (S included).
PredClosure(S) ==
    LET T == S \cup UNION {preds[n] : n \in S}
    IN  IF T = S THEN S ELSE PredClosure(T)

\* The collected subgraph of the call, by definition.
Reachable == PredClosure(targets)

Symmetric == \A u, v \in Nodes : (u \in preds[v]) <=> (v \in succs[u])

\* A cycle of predecessor edges can be reached from the targets.
CycleReachable == \E n \in Reachable : n \in PredClosure(preds[n])

\* n is an artifact with a non-command neighbour or a command with a
\* non-artifact neighbour.
EdgeViolation(n) ==
    \/ kind[n] = "File" /\ \E m \in preds[n] \cup succs[n] : kind[m] # "Command"
    \/ kind[n] = "Command" /\ \E m \in preds[n] \cup succs[n] : kind[m] # "File"

ViolationReachable == \E n \in Reachable : EdgeViolation(n)

Bipartite == \A n \in Reachable : kind[n] # "Node" /\ ~EdgeViolation(n)

ValidGraph == targets # {} /\ Bipartite /\ ~CycleReachable /\ Symmetric

\* Some action has returned false.
ActionFailed == \E n \in Nodes : task[n] = "raised"

\* Some action has raised an exception.
ActionRaised == \E n \in Nodes : task[n] = "excepted"

\* ------------------------------------------------------------------ claims

\* C1: topological respect.  Over a graph with symmetric edges a collected
\* node is submitted, and its action started, only when every predecessor
\* of it in the collected subgraph has been executed and returned success;
\* so a node with a predecessor whose action returned false is never started.
C1_TopologicalRespect ==
    Symmetric =>
        \A v \in nodes :
            (task[v] # "idle" \/ v \in invoked) =>
                \A u \in preds[v] \cap nodes : task[u] = "ret_true" /\ u \in completed

C1_Witness ==
    /\ Symmetric
    /\ \E v \in invoked : Cardinality(preds[v] \cap nodes) = 2
    /\ ActionFailed
    /\ pc = "end"

\* C2: whenever an action has returned false, the call ends by raising
\* BuildFailure and never returns normally.
C2_FailureRaises ==
    (pc = "end" /\ ActionFailed) => outcome = "BuildFailure"

\* C3: after an action has returned false the call terminates, for every
\* n_threads >= 1 and whatever is left in the ready queue.
C3_FailureTerminates ==
    (n_threads >= 1 /\ ActionFailed) ~> (pc = "end")

C4_WitnessIncomplete == outcome = "Incomplete"

\* C5: bounded parallelism.  The tasks submitted and not yet collected, and
\* so the actions running at once, never number more than n_threads.
C5_BoundedParallelism ==
    /\ Len(futures) <= n_threads
    /\ Cardinality({n \in Nodes : task[n] \in {"submitted", "checked", "running"}}) <= n_threads

C5_Witness ==
    /\ n_threads >= 2
    /\ Cardinality({n \in Nodes : task[n] = "running"}) = n_threads
    /\ ready # <<>>
    /\ pc = "wait"

\* C6: fail-fast.  Once build_failed is set because an action returned
\* false, no node is submitted, no action invocation begins and no node is
\* put on the ready queue.
C6_FailFast ==
    [][(build_failed /\ ActionFailed) =>
          /\ \A n \in Nodes : task'[n] = "submitted" => task[n] = "submitted"
          /\ invoked' = invoked
          /\ Len(ready') <= Len(ready)]_vars

\* C7: a cycle reachable from the targets ends the call with the cycle error
\* before any action is invoked; a node reached along two paths of an acyclic
\* graph does not.
C7_CycleRejection ==
    /\ CycleReachable => pc \in {"call", "collect", "end"} /\ invoked = {}
    /\ (pc = "end" /\ CycleReachable) => outcome = "CycleError"
    /\ outcome = "CycleError" => CycleReachable

C8_WitnessCycleFirst ==
    /\ ViolationReachable
    /\ outcome = "CycleError"

RECURSIVE SuccClosure(_)
\* The nodes reached from the set S by walking successors (S included).
SuccClosure(S) ==
    LET T == S \cup UNION {succs[n] : n \in S}
    IN  IF T = S THEN S ELSE SuccClosure(T)

\* The commands downstream of the file f.
Downstream(f) == SuccClosure({f}) \cap Commands

\* Nothing has been done since the current call ended, so that between tells
\* what was done before it began.
Undisturbed == between.run = run - 1

\* The current call follows a call that succeeded.
SecondRun == run >= 2 /\ prevOK /\ Undisturbed

\* C9: idempotent rebuild.  After a successful call over wrapped commands, a
\* second call with the files on disk untouched invokes no inner action and
\* leaves every artifact Unchanged, whether the nodes and the FileLoader are
\* reused or made anew from the saved cache file.
C9_IdempotentRebuild ==
    (SecondRun /\ between.edited = {} /\ Cardinality(nodes \cap Commands) >= 2) =>
        /\ innerRan = {}
        /\ (pc = "end" /\ outcome = "returned") =>
              \A f \in nodes \cap Files : status[f] = "Unchanged"

\* C10: incremental rebuild.  After a successful call, one source file is
\* edited and the build script run again: the wrapped commands whose inner
\* action is invoked are exactly the commands downstream of that source.
C10_IncrementalRebuild ==
    (SecondRun /\ between.reloaded /\ pc = "end" /\ outcome = "returned" /\ ~build_failed) =>
        \A f \in Files : between.edited = {f} => innerRan = Downstream(f) \cap nodes

\* What the path p is on disk.
OnDisk(p) == fs[p].type

\* A new loader, constructed after save_cache wrote the file, has loaded a
\* path recorded there, the path untouched on disk since it was digested.
RoundTrip == phase = "fresh" /\ op.name = "load" /\ op.path \in recorded

\* C11 as stated: after save_cache and a fresh FileLoader on the same cache
\* file, the filesystem untouched, load_file reports Unchanged for every
\* recorded artifact: regular file, directory or absent path.
C11_CacheRoundTrip == RoundTrip => status[op.path] = "Unchanged"

\* C11 as amended: in that round trip load_file reports Unchanged for a
\* recorded regular file, Modified for a directory and Deleted for an absent
\* path.
C11_RoundTripByType ==
    RoundTrip =>
        status[op.path] = CASE OnDisk(op.path) = "file" -> "Unchanged"
                            [] OnDisk(op.path) = "dir" -> "Modified"
                            [] OTHER -> "Deleted"

C11_Witness ==
    /\ RoundTrip
    /\ OnDisk(op.path) = "file"
    /\ status[op.path] = "Unchanged"
    /\ \E q \in recorded : OnDisk(q) = "dir"

\* C12: save_cache called with a set of artifacts overwrites their keys in
\* the in-memory map and writes the whole in-memory map: a key of the map
\* that is not in the set is in the written file with its digest, and the
\* in-memory map then holds the digests of the given artifacts.
C12_SaveMerges ==
    [][(op'.name = "save" /\ steps' = steps + 1 /\ op'.given /\ op'.files # {}) =>
          /\ \A k \in (DOMAIN cache) \ op'.files :
                k \in DOMAIN cacheFile'.map /\ cacheFile'.map[k] = cache[k]
          /\ \A f \in op'.files : Get(cache', f) = hash[f]]_vars

\* C13: after a successful call over wrapped commands the cache file on disk
\* has an entry for every File of the collected subgraph, whatever the order
\* in which the commands finished.
C13_CacheComplete ==
    (pc = "end" /\ outcome = "returned" /\ ~build_failed /\ nodes \cap Commands # {}) =>
        /\ cacheFile.present
        /\ nodes \cap Files \subseteq DOMAIN cacheFile.map

\* C14: for any n_threads, 0 included, a call over a valid graph whose
\* actions all succeed dispatches its ready nodes and terminates with every
\* collected node completed.
C14_AnyWorkerCount ==
    (ValidGraph /\ pc = "call") ~>
        (ActionFailed \/ (pc = "end" /\ outcome = "returned" /\ completed = nodes))

\* C15: an action that raises an exception is handled like a failed action:
\* build_failed is latched, nothing is submitted afterwards, and the call
\* does not end with the raw exception.
C15_ExceptionIsFailure ==
    /\ (pc = "end" /\ ActionRaised) => (build_failed /\ outcome # "Exception")
    /\ pc # "unwind"

\* The success of u has been passed on to its successor s.
PassedOn(u, s) == u \in completed \/ (cur = u /\ task[u] = "ret_true" /\ s \notin hsucc)

\* C16: a collected node without an action is trivially successful.  No
\* action is invoked for it; its task returns True (False only when the build
\* has already failed); once handled it is completed; and over symmetric
\* edges the in-degree of every node counts exactly the predecessors whose
\* success has not been passed on yet, action or no action.
C16_NoActionSucceeds ==
    /\ \A n \in Nodes : action[n] = "none" =>
          /\ n \notin invoked
          /\ task[n] \in {"idle", "submitted", "ret_true", "ret_false"}
          /\ task[n] = "ret_false" => build_failed
          /\ (task[n] = "ret_true" /\ n \notin Range(futures)) => n \in completed
    /\ Symmetric =>
          \A s \in DOMAIN in_degree :
              in_degree[s] = Cardinality({u \in preds[s] \cap nodes : ~PassedOn(u, s)})

C16_Witness ==
    /\ Symmetric
    /\ \E n \in completed :
          /\ action[n] = "none"
          /\ \E s \in succs[n] \cap invoked : Cardinality(preds[s] \cap nodes) = 2
    /\ pc = "end"
    /\ outcome = "returned"

\* C17: add_predecessors keeps the edges symmetric and is idempotent.  After
\* any sequence of calls B is in predecessors(A) exactly when A is in
\* successors(B); a call repeated with the same arguments, and any call whose
\* predecessors are all there already, leaves both edge sets as they were.
C17_SymmetricIdempotent ==
    /\ []Symmetric
    /\ [][(op'.name = "add" /\ steps' = steps + 1 /\
            (op'.repeat \/ op'.preds \subseteq preds[op'.node])) =>
              (preds' = preds /\ succs' = succs)]_vars

C17_Witness ==
    /\ op.name = "add"
    /\ op.repeat
    /\ Cardinality(op.preds) = 2
    /\ \E n \in WireNodes \ {op.node} : preds[n] # {}

\* C18: over symmetric edges each collected node is put on the ready queue
\* and submitted at most once, its action is invoked at most once and, when
\* the build succeeds, exactly once; no in-degree becomes negative; and no
\* node outside the subgraph reached from the targets by walking predecessors
\* is queued, submitted or invoked.
C18_OnceAndInside ==
    /\ [](Symmetric =>
            /\ \A i, j \in 1..Len(ready) : ready[i] = ready[j] => i = j
            /\ \A n \in Range(ready) : task[n] = "idle"
            /\ \A n \in DOMAIN in_degree : in_degree[n] >= 0
            /\ \A n \in Nodes :
                  (task[n] # "idle" \/ n \in invoked \/ n \in Range(ready)) => n \in Reachable
            /\ (pc = "end" /\ outcome = "returned" /\ ~build_failed) =>
                  invoked = {n \in Reachable : action[n] # "none"})
    /\ [][Symmetric =>
            \A n \in Nodes :
                /\ (task'[n] = "submitted" /\ task[n] # "submitted") => task[n] = "idle"
                /\ (task'[n] = "running" /\ task[n] # "running") => n \notin invoked]_vars

C18_Witness ==
    /\ Symmetric
    /\ pc = "end"
    /\ outcome = "returned"
    /\ ~build_failed
    /\ Cardinality(invoked) = 2
    /\ \E n \in Nodes \ Reachable : preds[n] \cap Reachable # {}

\* touched as the specification has it: some predecessor is an artifact, File
\* or not, whose status is Created, Modified or Deleted.
ArtifactTouched(n) ==
    \E p \in preds[n] :
        kind[p] \in {"File", "Data"} /\ status[p] \in {"Created", "Modified", "Deleted"}

\* C19: the wrapper invokes its inner action exactly when some predecessor
\* artifact, File or not, is Created, Modified or Deleted; when none is, the
\* inner action is not invoked and the wrapper returns success.
C19_TouchedIffArtifact ==
    /\ task["c1"] = "running" => ("c1" \in innerRan <=> ArtifactTouched("c1"))
    /\ (task["c1"] \in {"ret_true", "raised"} /\ "c1" \notin innerRan) =>
          task["c1"] = "ret_true"

\* The wrapper of c1 was touched and its inner action has succeeded.
TouchedSuccess == action["c1"] = "wrapped" /\ touched["c1"] /\ task["c1"] = "ret_true"

\* C20: when the wrapper is touched and the inner action succeeds, every File
\* among the predecessors and successors is digested again and classified
\* against the cache: missing -> Deleted; cached digest empty -> Created;
\* digest equal to the cached digest -> Unchanged; otherwise Modified; and
\* the new digests of these files are written to the cache file.
C20_TouchedReclassifies ==
    TouchedSuccess =>
        \A f \in preds["c1"] \cup succs["c1"] : kind[f] = "File" =>
            /\ hash[f] = compute_hash(fs, f)
            /\ status[f] = CASE ~Exists(fs, f) -> "Deleted"
                              [] Exists(fs, f) /\ Get(cache, f) = NoDigest -> "Created"
                              [] Exists(fs, f) /\ Get(cache, f) # NoDigest
                                   /\ hash[f] = Get(cache, f) -> "Unchanged"
                              [] OTHER -> "Modified"
            /\ cacheFile.present
            /\ f \in DOMAIN cacheFile.map
            /\ cacheFile.map[f] = hash[f]

C20_Witness ==
    /\ TouchedSuccess
    /\ kind["f1"] = "File"
    /\ fs["f1"] = Directory
    /\ status["f1"] = "Created"
    /\ status["f2"] = "Unchanged"
    /\ "f2" \in preds["c1"]
    /\ status["f3"] = "Created"

\* The wrapper of c1 has skipped its inner action and has returned.
SkippedDone ==
    /\ action["c1"] = "wrapped"
    /\ "c1" \in invoked
    /\ ~touched["c1"]
    /\ task["c1"] \in {"ret_true", "raised"}

\* C21: in the skip branch every File among the predecessors and successors
\* is digested again and classified: Deleted if the path is missing,
\* Unchanged if the digest is non-empty and equals the cached digest, Modified
\* otherwise, never Created; the digests are then saved to the cache file and
\* the wrapper returns success.
C21_SkipReclassifies ==
    SkippedDone =>
        /\ task["c1"] = "ret_true"
        /\ cacheFile.present
        /\ \A f \in preds["c1"] \cup succs["c1"] : kind[f] = "File" =>
              /\ hash[f] = compute_hash(fs, f)
              /\ status[f] # "Created"
              /\ status[f] = CASE ~Exists(fs, f) -> "Deleted"
                                [] Exists(fs, f) /\ hash[f] # NoDigest
                                     /\ hash[f] = Get(cache, f) -> "Unchanged"
                                [] OTHER -> "Modified"
              /\ f \in DOMAIN cacheFile.map
              /\ cacheFile.map[f] = hash[f]

\* Skipped with a successor that exists and was never cached (Modified, where
\* the touched branch would say Created), an unchanged regular predecessor
\* and a missing one.
C21_Witness ==
    /\ SkippedDone
    /\ preds["c1"] = {"f1", "f2"}
    /\ kind["f1"] = "File"
    /\ fs["f1"].type = "file" /\ status["f1"] = "Unchanged"
    /\ fs["f2"] = NoFile /\ status["f2"] = "Deleted"
    /\ fs["f3"].type = "file" /\ status["f3"] = "Modified"

\* C22: when the wrapper is touched and its inner action returns False, the
\* wrapper returns False (the task raises BuildFailure) and nothing is
\* reclassified or saved: the hash and status of every file, the in-memory
\* cache and the cache file are as they were when the inner action returned.
C22_FailureLeavesMetadata ==
    [][(task["c1"] = "running" /\ touched["c1"] /\ task'["c1"] # "ret_true"
            /\ task'["c1"] # "running")
          => /\ task'["c1"] = "raised"
             /\ build_failed'
             /\ UNCHANGED <<hash, status, cache, cacheFile>>]_vars

\* The inner action has failed where a reclassification would have changed a
\* status (f1 is Modified while its digest equals the cached one) and a save
\* would have created the cache file.
C22_Witness ==
    /\ task["c1"] = "raised"
    /\ touched["c1"]
    /\ "c1" \in innerRan
    /\ kind["f1"] = "File"
    /\ status["f1"] = "Modified"
    /\ fs["f1"].type = "file"
    /\ hash["f1"] = Get(cache, "f1")
    /\ ~cacheFile.present

\* C23: load_file gives the path Deleted if it does not exist; Created if the
\* cached digest is empty and the current digest is not; Unchanged if the
\* cached digest equals the current digest and the current digest is not
\* empty; Modified in every other case, an existing directory included; and
\* it sets the in-memory cache entry of the path to the current digest,
\* leaving the other entries alone.
C23_LoadClassifies ==
    [][(op'.name = "load" /\ steps' = steps + 1) =>
          LET p == op'.path
              current_hash == compute_hash(fs, p)
              cached_hash == Get(cache, p)
          IN  /\ status'[p] =
                    CASE ~Exists(fs, p) -> "Deleted"
                      [] Exists(fs, p) /\ cached_hash = NoDigest
                           /\ current_hash # NoDigest -> "Created"
                      [] Exists(fs, p) /\ cached_hash = current_hash
                           /\ current_hash # NoDigest -> "Unchanged"
                      [] OTHER -> "Modified"
              /\ fs[p] = Directory => status'[p] = "Modified"
              /\ hash'[p] = current_hash
              /\ p \in DOMAIN cache'
              /\ cache'[p] = current_hash
              /\ \A k \in (DOMAIN cache') \ {p} : k \in DOMAIN cache /\ cache'[k] = cache[k]
              /\ cacheFile' = cacheFile]_vars

\* f2 has just been loaded Unchanged, f1 is a directory loaded Modified, and
\* the cache holds the digest of f2.
C23_Witness ==
    /\ op.name = "load"
    /\ op.path = "f2"
    /\ status["f2"] = "Unchanged"
    /\ fs["f2"].type = "file"
    /\ "f2" \in DOMAIN cache
    /\ cache["f2"] = Sha256(fs["f2"].data)
    /\ fs["f1"] = Directory
    /\ status["f1"] = "Modified"

\* ------------------------------------------------- the bundled actions

BundledActions == {"MakeDir", "CompileCpp", "LinkCppShared", "LinkCppApp"}

\* The disk after the bundled action a of the command n has written its
\* output o: os.makedirs(o, exist_ok=True), or g++ writing o from the inputs.
BundledWrites(a, d, n, o) ==
    [p \in DOMAIN d |->
        IF p # o THEN d[p]
        ELSE IF a = "MakeDir" THEN Directory
        ELSE RegularFile(1 + SumData(d, {q \in preds[n] : IsFile(q)}))]

\* The hash a bundled action stores in its output: "" for MakeDir,
\* file_loader._compute_hash(path) for the others.
BundledHash(a, d, o) == IF a = "MakeDir" THEN NoDigest ELSE compute_hash(d, o)

\* The status a bundled action stores in its output, against FileLoader._cache.
BundledStatus(a, d, c, o) ==
    IF Get(c, o) = NoDigest THEN "Created"
    ELSE IF a = "MakeDir" THEN "Unchanged"
    ELSE IF BundledHash(a, d, o) # Get(c, o) THEN "Modified"
    ELSE "Unchanged"

\* The outputs a bundled action may pick: the first File among the successors
\* in the iteration order of the set.  The compiler and the linkers also need
\* a File among the predecessors.
BundledOutputs(a, n) ==
    IF a # "MakeDir" /\ ~\E q \in preds[n] : IsFile(q) THEN {}
    ELSE {s \in succs[n] : IsFile(s)}

\* The external effect can succeed: makedirs fails on an existing regular
\* file, g++ fails on an output path that is a directory.
CanSucceed(a, d, o) ==
    IF a = "MakeDir" THEN d[o].type # "file" ELSE d[o].type # "dir"

\* execute() of a bundled action constructed with a FileLoader returns: on
\* success the output is written and its hash and status are set by the
\* action itself; on failure nothing is set and the task raises BuildFailure.
BundledFinish(n) ==
    /\ task[n] = "running"
    /\ action[n] \in BundledActions
    /\ \/ \E o \in BundledOutputs(action[n], n) :
             /\ CanSucceed(action[n], fs, o)
             /\ fs' = BundledWrites(action[n], fs, n, o)
             /\ hash' = [hash EXCEPT ![o] = BundledHash(action[n], fs', o)]
             /\ status' = [status EXCEPT ![o] = BundledStatus(action[n], fs', cache, o)]
             /\ task' = [task EXCEPT ![n] = "ret_true"]
             /\ UNCHANGED <<cache, cacheFile, build_failed>>
       \/ /\ task' = [task EXCEPT ![n] = "raised"]
          /\ build_failed' = TRUE
          /\ UNCHANGED loaderVars
    /\ UNCHANGED <<graphVars, unitVars, stepVars, touched, runVars, innerRan, collectVars, loopVars, pc,
                   outcome, invoked>>

\* A worker is about to call the bundled action of the command c1, not
\* wrapped, whose predecessor is f1 and whose successor is f3; statuses, disk
\* and cache are whatever earlier loads and commands have left.
InitAct ==
    /\ preds = AddPredecessors({<<"f1", "c1">>, <<"c1", "f3">>}).p
    /\ succs = AddPredecessors({<<"f1", "c1">>, <<"c1", "f3">>}).s
    /\ kind = [n \in Nodes |-> IF n \in Commands THEN "Command" ELSE "File"]
    /\ \E a \in BundledActions :
          action = [n \in Nodes |-> IF n = "c1" THEN a ELSE "none"]
    /\ targets = {"f3"}
    /\ n_threads = 1
    /\ pc = "wait"
    /\ todoT = {}
    /\ stack = <<>>
    /\ nodes = {"f1", "c1", "f3"}
    /\ visiting = {}
    /\ in_degree = [n \in nodes |-> IF n = "f3" THEN 1 ELSE 0]
    /\ ready = <<>>
    /\ futures = <<"c1">>
    /\ done = {}
    /\ cur = ""
    /\ hsucc = {}
    /\ completed = {"f1"}
    /\ build_failed = FALSE
    /\ task = [n \in Nodes |-> IF n = "c1" THEN "checked"
                                ELSE IF n = "f1" THEN "ret_true" ELSE "idle"]
    /\ outcome = "none"
    /\ invoked = {}
    /\ touched = [n \in Nodes |-> FALSE]
    /\ run = 1
    /\ prevOK = FALSE
    /\ between = [run |-> 0, edited |-> {}, reloaded |-> FALSE]
    /\ innerRan = {}
    /\ fs \in [Files -> DiskChoices]
    /\ fs["f2"] = NoFile
    /\ hash = [f \in Files |-> compute_hash(fs, f)]
    /\ status \in [Files -> Statuses]
    /\ status["f2"] = "Unchanged"
    /\ cache \in [Files -> CachedChoices]
    /\ cache["f2"] = NoDigest
    /\ cacheFile = [present |-> FALSE, map |-> EmptyMap]
    /\ NoOp

NextAct ==
    \/ TaskInvoke("c1")
    \/ BundledFinish("c1")

ActSpec == InitAct /\ [][NextAct]_vars

\* C24: a bundled action (MakeDir, CompileCpp, LinkCppShared, LinkCppApp)
\* never changes the hash or the status of any artifact.
C24_ActionsLeaveMetadata ==
    [][(action["c1"] \in BundledActions /\ task["c1"] = "running"
            /\ task'["c1"] # "running")
          => UNCHANGED <<hash, status>>]_vars

\* --------------------------------- the wrapper step by step, on two workers

\* Two wrapped commands that share the predecessor f1.
RaceEdges == { <<"f1", "c1">>, <<"c1", "f2">>, <<"f1", "c2">>, <<"c2", "f3">> }

\* The inner action of a touched wrapper returns, or the wrapper takes its
\* else branch: on success the loop "for file in files" is about to begin.
WrapperInnerReturns(n) ==
    /\ task[n] = "running"
    /\ action[n] = "wrapped"
    /\ \E success \in Results(n) :
          IF success
          THEN /\ fs' = SettledDisk(n)
               /\ task' = [task EXCEPT ![n] = "settling"]
               /\ todo' = [todo EXCEPT ![n] = WrapperFiles(n)]
               /\ UNCHANGED build_failed
          ELSE /\ task' = [task EXCEPT ![n] = "raised"]
               /\ build_failed' = TRUE
               /\ UNCHANGED <<fs, todo>>
    /\ UNCHANGED <<graphVars, unitVars, hash, status, cache, cacheFile, writing, pending,
                   fileState, touched, runVars, innerRan, collectVars, loopVars, pc,
                   outcome, invoked>>

\* file.hash = self.file_loader._compute_hash(file.path), or file.hash = ""
\* for a missing path: the first of the two assignments made for a file.
WrapperSetsHash(n, f) ==
    /\ task[n] = "settling"
    /\ writing[n] = ""
    /\ f \in todo[n]
    /\ hash' = [hash EXCEPT ![f] = compute_hash(fs, f)]
    /\ writing' = [writing EXCEPT ![n] = f]
    /\ UNCHANGED <<graphVars, unitVars, fs, status, cache, cacheFile, todo, pending,
                   fileState, touched, runVars, innerRan, collectVars, loopVars, pc,
                   build_failed, task, outcome, invoked>>

\* file.status = ...: the second assignment, against FileLoader._cache.  No
\* command writes the disk under a file another wrapper is classifying, so
\* file.hash is the digest of the path as it is.
WrapperSetsStatus(n) ==
    /\ task[n] = "settling"
    /\ writing[n] # ""
    /\ status' = [status EXCEPT ![writing[n]] =
                     IF touched[n] THEN TouchedStatus(fs, cache, writing[n])
                     ELSE SkippedStatus(fs, cache, writing[n])]
    /\ todo' = [todo EXCEPT ![n] = @ \ {writing[n]}]
    /\ writing' = [writing EXCEPT ![n] = ""]
    /\ UNCHANGED <<graphVars, unitVars, fs, hash, cache, cacheFile, pending,
                   fileState, touched, runVars, innerRan, collectVars, loopVars, pc,
                   build_failed, task, outcome, invoked>>

\* save_cache(files) builds its dict from the hashes of the files and opens
\* the cache file with 'w', which truncates it.
SaveCacheOpens(n) ==
    /\ task[n] = "settling"
    /\ todo[n] = {}
    /\ writing[n] = ""
    /\ pending' = [pending EXCEPT ![n] = [f \in WrapperFiles(n) |-> hash[f]]]
    /\ cacheFile' = [present |-> TRUE, map |-> EmptyMap]
    /\ fileState' = "truncated"
    /\ task' = [task EXCEPT ![n] = "saving"]
    /\ UNCHANGED <<graphVars, unitVars, fs, hash, status, cache, todo, writing,
                   touched, runVars, innerRan, collectVars, loopVars, pc,
                   build_failed, outcome, invoked>>

\* json.dump and the close of the file write the dict at offset 0, and the
\* wrapper returns True.  When another save_cache has written since this one
\* truncated the file, the dict lands on that content: the file holds this
\* dict when it is at least as long, this dict followed by the tail of the
\* other (not JSON, read back as {}) when it is shorter.
SaveCacheDumps(n) ==
    /\ task[n] = "saving"
    /\ \E torn \in (IF fileState = "truncated" THEN {FALSE} ELSE BOOLEAN) :
          /\ fileState' = IF torn THEN "torn" ELSE "complete"
          /\ cacheFile' = IF torn THEN [present |-> TRUE, map |-> EmptyMap]
                          ELSE save_cache(WrapperFiles(n), pending[n])
    /\ pending' = [pending EXCEPT ![n] = EmptyMap]
    /\ task' = [task EXCEPT ![n] = "ret_true"]
    /\ UNCHANGED <<graphVars, unitVars, fs, hash, status, cache, todo, writing,
                   touched, runVars, innerRan, collectVars, loopVars, pc,
                   build_failed, outcome, invoked>>

RaceWorker(n) ==
    \/ TaskStart(n)
    \/ TaskInvoke(n)
    \/ WrapperInnerReturns(n)
    \/ \E f \in Files : WrapperSetsHash(n, f)
    \/ WrapperSetsStatus(n)
    \/ SaveCacheOpens(n)
    \/ SaveCacheDumps(n)

\* The build script of two wrapped commands sharing an input, called with at
\* least two workers: the input is on disk, the outputs and the cache file are
\* there or not, every File node comes from load_file.
InitRace ==
    /\ preds = AddPredecessors(RaceEdges).p
    /\ succs = AddPredecessors(RaceEdges).s
    /\ kind = [n \in Nodes |-> IF n \in Files THEN "File" ELSE "Command"]
    /\ action = [n \in Nodes |-> IF n \in Commands THEN "wrapped" ELSE "none"]
    /\ targets = {"f2", "f3"}
    /\ n_threads \in 2..MaxThreads
    /\ pc = "call"
    /\ todoT = {}
    /\ stack = <<>>
    /\ nodes = {}
    /\ visiting = {}
    /\ in_degree = <<>>
    /\ ready = <<>>
    /\ futures = <<>>
    /\ done = {}
    /\ cur = ""
    /\ hsucc = {}
    /\ completed = {}
    /\ build_failed = FALSE
    /\ task = [n \in Nodes |-> "idle"]
    /\ outcome = "none"
    /\ invoked = {}
    /\ fs \in [Files -> {NoFile, RegularFile(1)}]
    /\ fs["f1"] = RegularFile(1)
    /\ \E saved \in {EmptyMap} \cup {[f \in {"f1"} |-> Sha256(d)] : d \in {1, 2}} :
          /\ cacheFile = [present |-> saved # EmptyMap, map |-> saved]
          /\ cache = CacheAfterLoad(fs, saved, Files)
          /\ status = [f \in Files |-> LoadStatus(fs, saved, f)]
    /\ hash = [f \in Files |-> compute_hash(fs, f)]
    /\ touched = [n \in Nodes |-> FALSE]
    /\ run = 1
    /\ prevOK = FALSE
    /\ between = [run |-> 0, edited |-> {}, reloaded |-> TRUE]
    /\ innerRan = {}
    /\ NoOp

NextRace ==
    \/ MainThread
    \/ \E n \in Nodes : RaceWorker(n)

RaceSpec == InitRace /\ [][NextRace]_vars

\* The wrapper of n is between the two assignments it makes to the file f.
WritingMetadata(n, f) == task[n] = "settling" /\ writing[n] = f

\* The wrapper of n is about to read the statuses of its predecessors.
ReadingStatus(n, f) == task[n] = "checked" /\ action[n] = "wrapped" /\ f \in preds[n]

\* C25: the hash and status of an artifact are written by at most one action
\* invocation at a time, and no command reads the status of an artifact while
\* another running command is writing it, two wrapped commands sharing a
\* predecessor and in flight together included.
C25_OneWriterAtATime ==
    \A f \in Files : \A n, m \in Commands : n # m =>
        /\ ~(WritingMetadata(n, f) /\ WritingMetadata(m, f))
        /\ ~(WritingMetadata(n, f) /\ ReadingStatus(m, f))

\* The wrapper of n is in its loop over the files, where it reads
\* FileLoader._cache.
ReadsCacheMap(n) == task[n] = "settling"

\* The save_cache called by the wrapper of n has opened the cache file and has
\* not written it yet.
InSaveCache(n) == task[n] = "saving"

\* C26: concurrent wrapper invocations are serialized on the digest cache: no
\* two of them are within their accesses to the in-memory cache map at once,
\* no two save_cache calls are between their truncation and their write at
\* once, and the cache file always holds the complete output of one
\* save_cache call.
C26_CacheSerialized ==
    /\ \A n, m \in Commands : n # m =>
          /\ ~(ReadsCacheMap(n) /\ ReadsCacheMap(m))
          /\ ~(InSaveCache(n) /\ InSaveCache(m))
    /\ cacheFile.present => fileState = "complete"

\* C27: load_file is not idempotent in the status it reports: a load_file
\* that directly follows a load_file of the same existing regular file, on
\* the same FileLoader and with nothing changed on disk in between, reports
\* Unchanged whatever the first one reported, because the first one has
\* stored the current digest in the in-memory cache.
C27_SecondLoadUnchanged ==
    [][(/\ op.name = "load"
        /\ op'.name = "load"
        /\ op'.path = op.path
        /\ steps' = steps + 1
        /\ fs[op.path].type = "file")
          => /\ status'[op.path] = "Unchanged"
             /\ cache[op.path] = compute_hash(fs, op.path)
             /\ (status[op.path] \in {"Created", "Modified"} =>
                    status'[op.path] # status[op.path])]_vars

\* The second of two load_file calls made first thing on a fresh loader with
\* no cache file: the first call had an empty cache and reported Created, the
\* second reports Unchanged.
C27_Witness ==
    /\ steps = 2
    /\ op.name = "load"
    /\ op.path = "f1"
    /\ fs["f1"].type = "file"
    /\ status["f1"] = "Unchanged"
    /\ ~cacheFile.present

\* ------------------------------------------ builds with a directory input

\* The source f2 feeds c2, whose output path f3 is an input of c1.
DirEdges == { <<"f2", "c2">>, <<"c2", "f3">>, <<"f3", "c1">>, <<"c1", "f1">> }

\* What an earlier build may have left in the cache file.
DirSaved ==
    { EmptyMap,
      [f \in {"f2"} |-> Sha256(1)],
      [f \in {"f2", "f3"} |-> IF f = "f2" THEN Sha256(1) ELSE Sha256(5)] }

\* A build script where the path f3 is an existing directory (or missing), the
\* cache file is missing or left by an earlier build, every command is
\* wrapped and every File node comes from load_file.
InitDir ==
    /\ preds = AddPredecessors(DirEdges).p
    /\ succs = AddPredecessors(DirEdges).s
    /\ kind = [n \in Nodes |-> IF n \in Files THEN "File" ELSE "Command"]
    /\ action = [n \in Nodes |-> IF n \in Commands THEN "wrapped" ELSE "none"]
    /\ targets = {"f1"}
    /\ n_threads \in 1..MaxThreads
    /\ pc = "call"
    /\ todoT = {}
    /\ stack = <<>>
    /\ nodes = {}
    /\ visiting = {}
    /\ in_degree = <<>>
    /\ ready = <<>>
    /\ futures = <<>>
    /\ done = {}
    /\ cur = ""
    /\ hsucc = {}
    /\ completed = {}
    /\ build_failed = FALSE
    /\ task = [n \in Nodes |-> "idle"]
    /\ outcome = "none"
    /\ invoked = {}
    /\ fs \in [Files -> DiskChoices]
    /\ fs["f2"] = RegularFile(1)
    /\ fs["f3"] # RegularFile(1)
    /\ fs["f1"] # Directory
    /\ \E saved \in DirSaved :
          /\ cacheFile = [present |-> saved # EmptyMap, map |-> saved]
          /\ cache = CacheAfterLoad(fs, saved, Files)
          /\ status = [f \in Files |-> LoadStatus(fs, saved, f)]
    /\ hash = [f \in Files |-> compute_hash(fs, f)]
    /\ touched = [n \in Nodes |-> FALSE]
    /\ run = 1
    /\ prevOK = FALSE
    /\ between = [run |-> 0, edited |-> {}, reloaded |-> TRUE]
    /\ innerRan = {}
    /\ NoOp

DirSpec == InitDir /\ [][NextBuild]_vars

\* The command n has a predecessor File whose path is a directory.
HasDirectoryInput(n) == \E p \in preds[n] : IsFile(p) /\ fs[p] = Directory

\* C28: a File whose path is an existing directory is never Unchanged after
\* load_file or the wrapper has classified it: it is Modified after load_file
\* and after the skip branch, Created (Modified when the cache holds a digest
\* for the path) after the touched branch; so a wrapped command with such a
\* predecessor is touched and invokes its inner action on every run.
C28_DirectoryNeverUnchanged ==
    /\ \A f \in Files : fs[f] = Directory =>
          /\ status[f] \in {"Created", "Modified"}
          /\ (run = 1 /\ pc = "call") => status[f] = "Modified"
          /\ (pc = "end" /\ Since.reloaded /\ Since.run = run) => status[f] = "Modified"
          /\ \A n \in Commands :
                (f \in WrapperFiles(n) /\ task[n] = "ret_true" /\ n \notin innerRan
                    /\ ~\E m \in Commands \ {n} : f \in WrapperFiles(m) /\ m \in invoked)
                => status[f] = "Modified"
          /\ \A n \in Commands :
                (f \in preds[n] /\ task[n] = "ret_true" /\ n \in innerRan
                    /\ ~Since.reloaded
                    /\ ~\E m \in Commands \ {n} : f \in preds[m] /\ m \in invoked)
                => status[f] = IF Get(cache, f) = NoDigest THEN "Created" ELSE "Modified"
    /\ \A n \in Commands :
          (action[n] = "wrapped" /\ n \in invoked /\ HasDirectoryInput(n)) =>
              touched[n] /\ n \in innerRan

\* The second run on the same nodes: c2 has been skipped, leaving the
\* directory f3 Modified, and c1, which reads f3, has run its inner action
\* again and left f3 Created.
C28_Witness ==
    /\ run = 2
    /\ pc = "end"
    /\ outcome = "returned"
    /\ fs["f3"] = Directory
    /\ "c2" \in invoked /\ "c2" \notin innerRan
    /\ "c1" \in innerRan
    /\ task["c1"] = "ret_true"
    /\ status["f3"] = "Created"

====
